---- MODULE Spec2Model ----
(***************************************************************************)
(* Model of src/forwarder.rs: the device forwarder.                        *)
(*                                                                         *)
(* Forwarder::init clears the persisted ForwarderSessionState properties,  *)
(* Forwarder::handle_sessions dispatches session requests to tokio tasks   *)
(* kept in a HashMap<SessionInfo, JoinHandle<()>>, and every task runs     *)
(* Forwarder::handle_session / Forwarder::connect, publishing its state    *)
(* with SessionState::send.  Every await of the source is one step.        *)
(***************************************************************************)
EXTENDS Integers, Sequences, FiniteSets, TLC

(* ---------------------------- bounds ----------------------------------- *)
NumHosts == 2
NumTokens == 1
NumStale == 3
MaxTasks == 2
MaxReconnects == 1

(* ------------------------- program constants --------------------------- *)
FORWARDER_SESSION_STATE_INTERFACE == "io.edgehog.devicemanager.ForwarderSessionState"

\* enum SessionStatus, by discriminant
Connecting == 0
Connected == 1
Disconnected == 2

SessionStatus == {Connecting, Connected, Disconnected}

\* impl Display for SessionStatus
SessionStatusToString(status) ==
    CASE status = Connecting -> "Connecting"
      [] status = Connected -> "Connected"
      [] status = Disconnected -> "Disconnected"

\* SessionState::connecting / connected / disconnected
SessionState(token, status) == [token |-> token, status |-> status]

\* the conversion writing Disconnected as a string instead of Unset
AstarteTypeFrom_Sentinel(value) ==
    [tag |-> "String", val |-> SessionStatusToString(value.status)]

\* impl From<SessionState> for AstarteType
AstarteTypeFrom(value) ==
    IF value.status \in {Connecting, Connected}
    THEN [tag |-> "String", val |-> SessionStatusToString(value.status)]
    ELSE [tag |-> "Unset", val |-> ""]

\* the path without its /status suffix
IPath_NoStatus(token) == <<"/", token>>

\* format!("/{}/status", self.token)
IPath(token) == <<"/", token, "/status">>

\* SessionState::send: the one call it makes on the publisher,
\* publisher.send(FORWARDER_SESSION_STATE_INTERFACE, &ipath, idata)
SendCall(state) ==
    [method |-> "send", interface |-> FORWARDER_SESSION_STATE_INTERFACE,
     path |-> IPath(state.token), data |-> AstarteTypeFrom(state)]

\* no publisher call made yet
NoCall == [method |-> "none", interface |-> "", path |-> <<>>, data |-> [tag |-> "Unset", val |-> ""]]

(* --------------------------- input domains ----------------------------- *)
Hosts == 1..NumHosts
Tokens == 1..NumTokens
Ports == {8080}
Secures == {FALSE}

\* SessionInfo { host, port, session_token, secure }: the registry key
SessionInfo == [host : Hosts, port : Ports, session_token : Tokens, secure : Secures]

\* tokens of the sessions of an earlier process, whose properties may still
\* be persisted at startup
StaleTokens == 1..NumStale

Paths == {IPath(tok) : tok \in Tokens \cup StaleTokens}

\* a persisted property of the interface: its value and the task that wrote
\* it (0: not written by a task of this process)
NoEntry == [value |-> "", writer |-> 0]
StaleEntries == {[value |-> v, writer |-> 0] : v \in {"Connecting", "Connected", "Disconnected"}}

\* inbound AstarteDeviceDataEvent, by what SessionInfo::from_event and
\* Url::try_from make of it
AnyKey == CHOOSE k0 \in SessionInfo : TRUE

Events ==
    {[kind |-> "bad_event", key |-> AnyKey], [kind |-> "bad_url", key |-> AnyKey]}
    \cup {[kind |-> "valid", key |-> k] : k \in SessionInfo}

VARIABLES
    initState,   \* position of Forwarder::init
    initProps,   \* the Vec<StoredProp> returned by interface_props (paths), while init runs
    initIdx,     \* number of props that init has unset
    store,       \* the persisted properties of the interface, by path
    tasks,       \* every tokio task spawned so far, by task id
    registry,    \* Forwarder.tasks: SessionInfo -> task id (0: no entry)
    lastEvent    \* what handle_sessions did with the last event (its log line)

vars == <<initState, initProps, initIdx, store, tasks, registry, lastEvent>>

TaskIds == 1..Len(tasks)

(* ------------------------- Publisher capability ------------------------ *)
\* Publisher::send(interface, path, data): a String is stored at the path,
\* Unset clears the path
PublisherSend(st, path, data, writer) ==
    IF data.tag = "Unset"
    THEN [st EXCEPT ![path] = NoEntry]
    ELSE [st EXCEPT ![path] = [value |-> data.val, writer |-> writer]]

\* Publisher::unset(interface, path)
PublisherUnset(st, path) == [st EXCEPT ![path] = NoEntry]

\* Publisher::interface_props(interface): the paths that hold a property
InterfaceProps(st) == {p \in Paths : st[p] # NoEntry}

\* SessionState::send, when the publisher call succeeds
SessionStateSend(st, state, writer) ==
    PublisherSend(st, SendCall(state).path, SendCall(state).data, writer)

\* all the orders in which a set can be returned as a Vec
RECURSIVE Orders(_)
Orders(S) ==
    IF S = {} THEN {<<>>}
    ELSE UNION {{<<x>> \o rest : rest \in Orders(S \ {x})} : x \in S}

\* HashMap::default()
EmptyRegistry == [k \in SessionInfo |-> 0]

NoEvent == [key |-> AnyKey, prev |-> 0, outcome |-> "none"]

(* ------------------------------ Init ----------------------------------- *)
Init ==
    /\ initState = "enumerate"
    /\ initProps = <<>>
    /\ initIdx = 0
    /\ store \in [Paths -> StaleEntries \cup {NoEntry}]
    /\ tasks = <<>>
    /\ registry = EmptyRegistry
    /\ lastEvent = NoEvent

(* -------------------------- Forwarder::init ---------------------------- *)
\* publisher.interface_props(FORWARDER_SESSION_STATE_INTERFACE).await?
InitInterfaceProps ==
    /\ initState = "enumerate"
    /\ \/ \E ord \in Orders(InterfaceProps(store)) :
            /\ initProps' = ord
            /\ initState' = IF ord = <<>> THEN "ok" ELSE "unset"
            /\ registry' = EmptyRegistry
       \/ /\ initState' = "err_enumerate"
          /\ UNCHANGED <<initProps, registry>>
    /\ UNCHANGED <<initIdx, store, tasks, lastEvent>>

\* init leaving the loop after the first unset
InitUnset_StopEarly ==
    /\ initState = "unset"
    /\ \/ /\ store' = PublisherUnset(store, initProps[initIdx + 1])
          /\ initIdx' = initIdx + 1
          /\ initState' = "ok" /\ initProps' = <<>>
          /\ registry' = EmptyRegistry
       \/ /\ initState' = "err_unset"
          /\ UNCHANGED <<initProps, initIdx, store, registry>>
    /\ UNCHANGED <<tasks, lastEvent>>

\* init ignoring the result of unset
InitUnset_IgnoreFailure ==
    /\ initState = "unset"
    /\ \/ store' = PublisherUnset(store, initProps[initIdx + 1])
       \/ UNCHANGED store
    /\ initIdx' = initIdx + 1
    /\ IF initIdx + 1 = Len(initProps)
       THEN initState' = "ok" /\ initProps' = <<>>
       ELSE initState' = "unset" /\ UNCHANGED initProps
    /\ registry' = EmptyRegistry
    /\ UNCHANGED <<tasks, lastEvent>>

\* init going through the props from the last to the first
InitUnset_Reverse ==
    /\ initState = "unset"
    /\ \/ /\ store' = PublisherUnset(store, initProps[Len(initProps) - initIdx])
          /\ initIdx' = initIdx + 1
          /\ IF initIdx + 1 = Len(initProps)
             THEN initState' = "ok" /\ initProps' = <<>>
             ELSE initState' = "unset" /\ UNCHANGED initProps
          /\ registry' = EmptyRegistry
       \/ /\ initState' = "err_unset"
          /\ UNCHANGED <<initProps, initIdx, store, registry>>
    /\ UNCHANGED <<tasks, lastEvent>>

\* one iteration of the for loop: publisher.unset(interface, &prop.path).await?
\* followed, after the last prop, by Ok(Self { publisher, tasks: HashMap::default() })
InitUnset ==
    /\ initState = "unset"
    /\ \/ /\ store' = PublisherUnset(store, initProps[initIdx + 1])
          /\ initIdx' = initIdx + 1
          /\ IF initIdx + 1 = Len(initProps)
             THEN initState' = "ok" /\ initProps' = <<>>
             ELSE initState' = "unset" /\ UNCHANGED initProps
          /\ registry' = EmptyRegistry
       \/ /\ initState' = "err_unset"
          /\ UNCHANGED <<initProps, initIdx, store, registry>>
    /\ UNCHANGED <<tasks, lastEvent>>

(* ---------------------- Forwarder::handle_sessions --------------------- *)
\* JoinHandle::is_finished
IsFinished(i) == tasks[i].pc = "done"

\* the task spawned by tokio::spawn(async move { handle_session(..) }), at
\* its first await
NewTask(sinfo) ==
    [key |-> sinfo, pc |-> "send_connecting", log |-> <<>>, fails |-> {}, result |-> "running",
     call |-> NoCall, ncalls |-> 0]

\* get_running with the retain predicate inverted: running tasks are dropped
GetRunning_DropsRunning(reg) ==
    [k \in SessionInfo |-> IF reg[k] # 0 /\ ~IsFinished(reg[k]) THEN 0 ELSE reg[k]]

\* get_running without the retain: finished tasks stay in the map
GetRunning_NoRetain(reg) == reg

\* get_running clearing the map instead of retaining the running tasks
GetRunning_Clear(reg) == [k \in SessionInfo |-> 0]

\* get_running reaping the finished tasks of the first host only
GetRunning_FirstHost(reg) ==
    [k \in SessionInfo |-> IF reg[k] # 0 /\ IsFinished(reg[k]) /\ k.host = 1 THEN 0 ELSE reg[k]]

\* Forwarder::get_running: self.tasks.retain(|_, jh| !jh.is_finished())
GetRunning(reg) ==
    [k \in SessionInfo |-> IF reg[k] # 0 /\ IsFinished(reg[k]) THEN 0 ELSE reg[k]]

\* handle_sessions going on to the registry after the url could not be built
HandleSessions_NoUrlReturn(ev) ==
    /\ initState = "ok"
    /\ UNCHANGED <<initState, initProps, initIdx, store>>
    /\ CASE ev.kind = "bad_event" ->
              /\ lastEvent' = [key |-> ev.key, prev |-> 0, outcome |-> "error"]
              /\ UNCHANGED <<tasks, registry>>
         [] ev.kind \in {"valid", "bad_url"} ->
              LET running == GetRunning(registry) IN
              IF running[ev.key] # 0
              THEN /\ registry' = running
                   /\ UNCHANGED tasks
                   /\ lastEvent' = [key |-> ev.key, prev |-> registry[ev.key],
                                    outcome |-> IF ev.kind = "valid" THEN "running" ELSE "invalid url"]
              ELSE /\ Len(tasks) < MaxTasks
                   /\ tasks' = Append(tasks, NewTask(ev.key))
                   /\ registry' = [running EXCEPT ![ev.key] = Len(tasks) + 1]
                   /\ lastEvent' = [key |-> ev.key, prev |-> registry[ev.key],
                                    outcome |-> IF ev.kind = "valid" THEN "opened" ELSE "invalid url"]

\* Forwarder::handle_sessions(astarte_event)
HandleSessions(ev) ==
    /\ initState = "ok"
    /\ UNCHANGED <<initState, initProps, initIdx, store>>
    /\ CASE ev.kind = "bad_event" ->
              /\ lastEvent' = [key |-> ev.key, prev |-> 0, outcome |-> "error"]
              /\ UNCHANGED <<tasks, registry>>
         [] ev.kind = "bad_url" ->
              /\ lastEvent' = [key |-> ev.key, prev |-> 0, outcome |-> "invalid url"]
              /\ UNCHANGED <<tasks, registry>>
         [] ev.kind = "valid" ->
              LET running == GetRunning(registry) IN
              IF running[ev.key] # 0
              THEN /\ registry' = running
                   /\ UNCHANGED tasks
                   /\ lastEvent' = [key |-> ev.key,
                                    prev |-> registry[ev.key], outcome |-> "running"]
              ELSE /\ Len(tasks) < MaxTasks
                   /\ tasks' = Append(tasks, NewTask(ev.key))
                   /\ registry' = [running EXCEPT ![ev.key] = Len(tasks) + 1]
                   /\ lastEvent' = [key |-> ev.key,
                                    prev |-> registry[ev.key], outcome |-> "opened"]

(* ------------- Forwarder::handle_session / Forwarder::connect ---------- *)
Token(i) == tasks[i].key.session_token

\* a publish of task i was issued: SessionState::send made its publisher call
Issued(i, status) ==
    [tasks[i] EXCEPT !.log = Append(@, status),
                     !.call = SendCall(SessionState(Token(i), status)),
                     !.ncalls = @ + 1]

\* number of times status was published by the task
RECURSIVE Count(_, _)
Count(log, status) ==
    IF log = <<>> THEN 0
    ELSE (IF Head(log) = status THEN 1 ELSE 0) + Count(Tail(log), status)

Frame == UNCHANGED <<initState, initProps, initIdx, registry, lastEvent>>

\* handle_session: SessionState::connecting(token).send(&publisher).await?
SendConnecting(i) ==
    /\ tasks[i].pc = "send_connecting"
    /\ Frame
    /\ \/ /\ store' = SessionStateSend(store, SessionState(Token(i), Connecting), i)
          /\ tasks' = [tasks EXCEPT ![i] = [Issued(i, Connecting) EXCEPT !.pc = "connect"]]
       \/ /\ UNCHANGED store
          /\ tasks' = [tasks EXCEPT ![i] = [Issued(i, Connecting) EXCEPT
                           !.pc = "done", !.result = "Err",
                           !.fails = @ \cup {"send_connecting"}]]

\* connect whose failure ends the task without the Disconnected publish
Connect_NoFinalize(i) ==
    /\ tasks[i].pc = "connect"
    /\ Frame
    /\ UNCHANGED store
    /\ \/ tasks' = [tasks EXCEPT ![i].pc = "send_connected"]
       \/ tasks' = [tasks EXCEPT ![i].pc = "done", ![i].result = "Ok",
                                 ![i].fails = @ \cup {"connect"}]

\* connect going on to the Connected publish although the handler failed
Connect_PublishAnyway(i) ==
    /\ tasks[i].pc = "connect"
    /\ Frame
    /\ UNCHANGED store
    /\ \/ tasks' = [tasks EXCEPT ![i].pc = "send_connected"]
       \/ tasks' = [tasks EXCEPT ![i].pc = "send_connected",
                                 ![i].fails = @ \cup {"connect"}]

\* connect: ConnectionsManager::connect(edgehog_url, secure).await?
Connect(i) ==
    /\ tasks[i].pc = "connect"
    /\ Frame
    /\ UNCHANGED store
    /\ \/ tasks' = [tasks EXCEPT ![i].pc = "send_connected"]
       \/ tasks' = [tasks EXCEPT ![i].pc = "send_disconnected",
                                 ![i].fails = @ \cup {"connect"}]

\* the Connected publish whose failure is propagated out of handle_session
SendConnected_Propagate(i) ==
    /\ tasks[i].pc = "send_connected"
    /\ Frame
    /\ \/ /\ store' = SessionStateSend(store, SessionState(Token(i), Connected), i)
          /\ tasks' = [tasks EXCEPT ![i] = [Issued(i, Connected) EXCEPT !.pc = "handle_connections"]]
       \/ /\ UNCHANGED store
          /\ tasks' = [tasks EXCEPT ![i] = [Issued(i, Connected) EXCEPT
                           !.pc = "done", !.result = "Err",
                           !.fails = @ \cup {"send_connected"}]]

\* connect: SessionState::connected(token).send(publisher).await?
SendConnected(i) ==
    /\ tasks[i].pc = "send_connected"
    /\ Frame
    /\ \/ /\ store' = SessionStateSend(store, SessionState(Token(i), Connected), i)
          /\ tasks' = [tasks EXCEPT ![i] = [Issued(i, Connected) EXCEPT !.pc = "handle_connections"]]
       \/ /\ UNCHANGED store
          /\ tasks' = [tasks EXCEPT ![i] = [Issued(i, Connected) EXCEPT
                           !.pc = "send_disconnected",
                           !.fails = @ \cup {"send_connected"}]]

\* the loop reconnecting without publishing Connecting first
HandleConnections_SkipConnecting(i) ==
    /\ tasks[i].pc = "handle_connections"
    /\ Frame
    /\ UNCHANGED store
    /\ \/ tasks' = [tasks EXCEPT ![i].pc = "send_disconnected"]
       \/ /\ Count(tasks[i].log, Connecting) <= MaxReconnects
          /\ tasks' = [tasks EXCEPT ![i].pc = "reconnect"]

\* connect: while let Err(Disconnected(err)) = con_manager.handle_connections().await
HandleConnections(i) ==
    /\ tasks[i].pc = "handle_connections"
    /\ Frame
    /\ UNCHANGED store
    /\ \/ tasks' = [tasks EXCEPT ![i].pc = "send_disconnected"]
       \/ /\ Count(tasks[i].log, Connecting) <= MaxReconnects
          /\ tasks' = [tasks EXCEPT ![i].pc = "loop_send_connecting"]

\* connect, loop body: SessionState::connecting(token).send(publisher).await?
LoopSendConnecting(i) ==
    /\ tasks[i].pc = "loop_send_connecting"
    /\ Frame
    /\ \/ /\ store' = SessionStateSend(store, SessionState(Token(i), Connecting), i)
          /\ tasks' = [tasks EXCEPT ![i] = [Issued(i, Connecting) EXCEPT !.pc = "reconnect"]]
       \/ /\ UNCHANGED store
          /\ tasks' = [tasks EXCEPT ![i] = [Issued(i, Connecting) EXCEPT
                           !.pc = "send_disconnected",
                           !.fails = @ \cup {"loop_send_connecting"}]]

\* reconnect whose failure ends the task without the Disconnected publish
Reconnect_NoFinalize(i) ==
    /\ tasks[i].pc = "reconnect"
    /\ Frame
    /\ UNCHANGED store
    /\ \/ tasks' = [tasks EXCEPT ![i].pc = "loop_send_connected"]
       \/ tasks' = [tasks EXCEPT ![i].pc = "done", ![i].result = "Err",
                                 ![i].fails = @ \cup {"reconnect"}]

\* reconnect after which the task gives up the session although it succeeded
Reconnect_GivesUp(i) ==
    /\ tasks[i].pc = "reconnect"
    /\ Frame
    /\ UNCHANGED store
    /\ \/ tasks' = [tasks EXCEPT ![i].pc = "send_disconnected"]
       \/ tasks' = [tasks EXCEPT ![i].pc = "send_disconnected",
                                 ![i].fails = @ \cup {"reconnect"}]

\* connect, loop body: con_manager.reconnect().await.map_err(..)?
Reconnect(i) ==
    /\ tasks[i].pc = "reconnect"
    /\ Frame
    /\ UNCHANGED store
    /\ \/ tasks' = [tasks EXCEPT ![i].pc = "loop_send_connected"]
       \/ tasks' = [tasks EXCEPT ![i].pc = "send_disconnected",
                                 ![i].fails = @ \cup {"reconnect"}]

\* the loop ending after its first successful reconnect
LoopSendConnected_Exit(i) ==
    /\ tasks[i].pc = "loop_send_connected"
    /\ Frame
    /\ \/ /\ store' = SessionStateSend(store, SessionState(Token(i), Connected), i)
          /\ tasks' = [tasks EXCEPT ![i] = [Issued(i, Connected) EXCEPT !.pc = "send_disconnected"]]
       \/ /\ UNCHANGED store
          /\ tasks' = [tasks EXCEPT ![i] = [Issued(i, Connected) EXCEPT
                           !.pc = "send_disconnected",
                           !.fails = @ \cup {"loop_send_connected"}]]

\* connect, loop body: SessionState::connected(token).send(publisher).await?
LoopSendConnected(i) ==
    /\ tasks[i].pc = "loop_send_connected"
    /\ Frame
    /\ \/ /\ store' = SessionStateSend(store, SessionState(Token(i), Connected), i)
          /\ tasks' = [tasks EXCEPT ![i] = [Issued(i, Connected) EXCEPT !.pc = "handle_connections"]]
       \/ /\ UNCHANGED store
          /\ tasks' = [tasks EXCEPT ![i] = [Issued(i, Connected) EXCEPT
                           !.pc = "send_disconnected",
                           !.fails = @ \cup {"loop_send_connected"}]]

\* the Disconnected publish whose failure is logged and not returned
SendDisconnected_Swallow(i) ==
    /\ tasks[i].pc = "send_disconnected"
    /\ Frame
    /\ \/ /\ store' = SessionStateSend(store, SessionState(Token(i), Disconnected), i)
          /\ tasks' = [tasks EXCEPT ![i] = [Issued(i, Disconnected) EXCEPT
                           !.pc = "done", !.result = "Ok"]]
       \/ /\ UNCHANGED store
          /\ tasks' = [tasks EXCEPT ![i] = [Issued(i, Disconnected) EXCEPT
                           !.pc = "done", !.result = "Ok",
                           !.fails = @ \cup {"send_disconnected"}]]

\* the task removing its own entry from the registry when it ends
SendDisconnected_Deregister(i) ==
    /\ tasks[i].pc = "send_disconnected"
    /\ UNCHANGED <<initState, initProps, initIdx, lastEvent>>
    /\ registry' = [registry EXCEPT ![tasks[i].key] = 0]
    /\ \/ /\ store' = SessionStateSend(store, SessionState(Token(i), Disconnected), i)
          /\ tasks' = [tasks EXCEPT ![i] = [Issued(i, Disconnected) EXCEPT
                           !.pc = "done", !.result = "Ok"]]
       \/ /\ UNCHANGED store
          /\ tasks' = [tasks EXCEPT ![i] = [Issued(i, Disconnected) EXCEPT
                           !.pc = "done", !.result = "Err",
                           !.fails = @ \cup {"send_disconnected"}]]

\* the Disconnected publish repeated until it succeeds
SendDisconnected_Retry(i) ==
    /\ tasks[i].pc = "send_disconnected"
    /\ Frame
    /\ \/ /\ store' = SessionStateSend(store, SessionState(Token(i), Disconnected), i)
          /\ tasks' = [tasks EXCEPT ![i] = [Issued(i, Disconnected) EXCEPT
                           !.pc = "done", !.result = "Ok"]]
       \/ /\ UNCHANGED store
          /\ "send_disconnected" \notin tasks[i].fails
          /\ tasks' = [tasks EXCEPT ![i] = [Issued(i, Disconnected) EXCEPT
                           !.fails = @ \cup {"send_disconnected"}]]

\* handle_session: SessionState::disconnected(token).send(&publisher).await?; Ok(())
SendDisconnected(i) ==
    /\ tasks[i].pc = "send_disconnected"
    /\ Frame
    /\ \/ /\ store' = SessionStateSend(store, SessionState(Token(i), Disconnected), i)
          /\ tasks' = [tasks EXCEPT ![i] = [Issued(i, Disconnected) EXCEPT
                           !.pc = "done", !.result = "Ok"]]
       \/ /\ UNCHANGED store
          /\ tasks' = [tasks EXCEPT ![i] = [Issued(i, Disconnected) EXCEPT
                           !.pc = "done", !.result = "Err",
                           !.fails = @ \cup {"send_disconnected"}]]

(* --------------------------- specification ----------------------------- *)
Next ==
    \/ InitInterfaceProps
    \/ InitUnset
    \/ \E ev \in Events : HandleSessions(ev)
    \/ \E i \in TaskIds : SendConnecting(i)
    \/ \E i \in TaskIds : Connect(i)
    \/ \E i \in TaskIds : SendConnected(i)
    \/ \E i \in TaskIds : HandleConnections(i)
    \/ \E i \in TaskIds : LoopSendConnecting(i)
    \/ \E i \in TaskIds : Reconnect(i)
    \/ \E i \in TaskIds : LoopSendConnected(i)
    \/ \E i \in TaskIds : SendDisconnected(i)

Spec == Init /\ [][Next]_vars

\* the next step of task i: the await it is suspended at returns
TaskStep(i) ==
    /\ i \in TaskIds
    /\ \/ SendConnecting(i) \/ Connect(i) \/ SendConnected(i) \/ HandleConnections(i)
       \/ LoopSendConnecting(i) \/ Reconnect(i) \/ LoopSendConnected(i) \/ SendDisconnected(i)

\* every publisher and handler call returns and the runtime runs every
\* spawned task: no task stays suspended for ever at an await
FairSpec == Spec /\ \A i \in 1..MaxTasks : WF_vars(TaskStep(i))

TypeOK ==
    /\ initState \in {"enumerate", "unset", "ok", "err_enumerate", "err_unset"}
    /\ initIdx \in 0..Cardinality(Paths)
    /\ initState = "unset" => initIdx < Len(initProps)
    /\ \A k \in SessionInfo : registry[k] \in 0..Len(tasks)
    /\ Len(tasks) <= MaxTasks

(* ======================= properties of the forwarder ==================== *)
\* the tasks of ts bound to key k that have not finished
LiveTasks(ts, k) == {i \in 1..Len(ts) : ts[i].key = k /\ ts[i].pc # "done"}

\* the tasks of ts holding session token tok that have not finished
LiveHolders(ts, tok) == {i \in 1..Len(ts) : ts[i].key.session_token = tok /\ ts[i].pc # "done"}

Last(log) == log[Len(log)]

PublishSteps ==
    {"send_connecting", "send_connected", "loop_send_connecting",
     "loop_send_connected", "send_disconnected"}

\* the publishes made inside Forwarder::connect
ConnectPublishSteps == {"send_connected", "loop_send_connecting", "loop_send_connected"}

\* C1 (exclusivity): after every step at most one task per SessionInfo has
\* not finished, that task is the one the registry holds for the key, and no
\* step adds a task for a key that already has a task that has not finished.
C1_Exclusivity ==
    [][\A k \in SessionInfo :
          /\ Cardinality(LiveTasks(tasks', k)) <= 1
          /\ \A i \in LiveTasks(tasks', k) : registry'[k] = i
          /\ LiveTasks(tasks, k) # {} =>
                /\ LiveTasks(tasks', k) \subseteq LiveTasks(tasks, k)
                /\ Len(tasks') = Len(tasks) \/ tasks'[Len(tasks')].key # k]_vars

\* a request for a key arrived while its task was running: nothing was spawned
C1_Witness ==
    /\ lastEvent.outcome = "running"
    /\ LiveTasks(tasks, lastEvent.key) = {registry[lastEvent.key]}
    /\ Cardinality({i \in TaskIds : tasks[i].key = lastEvent.key}) = 1

\* C2, as stated: the publish calls of a task are a prefix of Connecting,
\* Connected, (Connecting, Connected)*, Disconnected, and Disconnected is the
\* last one of a task that ended (and had published anything).
OrderedPrefix(log) ==
    \A n \in 1..Len(log) :
        IF log[n] = Disconnected
        THEN n = Len(log) /\ n >= 3 /\ n % 2 = 1
        ELSE log[n] = (IF n % 2 = 1 THEN Connecting ELSE Connected)

C2_Original ==
    \A i \in TaskIds :
        /\ OrderedPrefix(tasks[i].log)
        /\ (IsFinished(i) /\ "send_connecting" \notin tasks[i].fails) =>
               Last(tasks[i].log) = Disconnected

\* C2, amended: the publish calls of a task alternate Connecting, Connected,
\* starting with Connecting; Disconnected is issued at most once, as the last
\* call, after a Connected or directly after a Connecting; a task that ended
\* issued Disconnected last unless its first Connecting publish failed.
Alternating(log) ==
    \A n \in 1..Len(log) :
        IF log[n] = Disconnected
        THEN n = Len(log) /\ n >= 2
        ELSE log[n] = (IF n % 2 = 1 THEN Connecting ELSE Connected)

C2_StateOrdering ==
    \A i \in TaskIds :
        /\ Alternating(tasks[i].log)
        /\ IsFinished(i) =>
              IF "send_connecting" \in tasks[i].fails
              THEN tasks[i].log = <<Connecting>>
              ELSE Last(tasks[i].log) = Disconnected
        /\ ~IsFinished(i) => Count(tasks[i].log, Disconnected) = 0

\* a session that reconnected once and ended: C, Cd, C, Cd, D
C2_Witness ==
    \E i \in TaskIds :
        /\ IsFinished(i)
        /\ tasks[i].log = <<Connecting, Connected, Connecting, Connected, Disconnected>>

\* C3 (finalize after a connection failure): once connect or reconnect has
\* failed, the task publishes no Connected any more, issues Disconnected
\* exactly once before it ends, and when that publish does not fail the
\* result is Ok and no entry of the task stays published; a failed connect
\* gives exactly Connecting, Disconnected.
C3_FinalizeAfterConnectFailure ==
    \A i \in TaskIds :
        LET t == tasks[i] IN
        /\ "connect" \in t.fails =>
              /\ t.pc \in {"send_disconnected", "done"}
              /\ t.log = IF t.pc = "done" THEN <<Connecting, Disconnected>> ELSE <<Connecting>>
        /\ "reconnect" \in t.fails =>
              /\ t.pc \in {"send_disconnected", "done"}
              /\ Count(t.log, Disconnected) = (IF t.pc = "done" THEN 1 ELSE 0)
              /\ t.log[Len(t.log) - Count(t.log, Disconnected)] = Connecting
        /\ (t.fails \cap {"connect", "reconnect"} # {} /\ t.pc = "done"
                /\ "send_disconnected" \notin t.fails) =>
              /\ t.result = "Ok"
              /\ \A p \in Paths : store[p].writer # i

C3_Witness ==
    \E i \in TaskIds :
        /\ tasks[i].fails = {"connect"}
        /\ tasks[i].log = <<Connecting, Disconnected>>
        /\ tasks[i].result = "Ok"
        /\ store[IPath(Token(i))] = NoEntry

C6_Original ==
    \A tok \in Tokens : Cardinality(LiveHolders(tasks, tok)) <= 1

\* C6, amended: two tasks that have not finished and hold the same session
\* token have different keys (they differ in host, port or secure flag), and
\* the entry at /<token>/status was written by a task holding that token.
C6_OwnerPerKey ==
    /\ \A i, j \in TaskIds :
          (i # j /\ ~IsFinished(i) /\ ~IsFinished(j) /\ Token(i) = Token(j)) =>
              tasks[i].key # tasks[j].key
    /\ \A tok \in Tokens :
          LET w == store[IPath(tok)].writer IN
          initState = "ok" /\ w # 0 => w \in TaskIds /\ Token(w) = tok

\* two running sessions to different hosts share a token, and one of them
\* has published at the token's path
C6_Witness ==
    \E i, j \in TaskIds :
        /\ i # j /\ ~IsFinished(i) /\ ~IsFinished(j)
        /\ Token(i) = Token(j)
        /\ store[IPath(Token(i))].writer = j

\* C7 (reuse after completion): a valid request for a key whose registry
\* entry is a finished task spawns a new task for the key, and the registry
\* then holds the new task for the key.
C7_ReuseAfterCompletion ==
    [][\A k \in SessionInfo :
          (/\ registry[k] # 0 /\ IsFinished(registry[k])
           /\ lastEvent' # lastEvent
           /\ lastEvent'.key = k
           /\ lastEvent'.outcome \in {"running", "opened"}) =>
              /\ lastEvent'.outcome = "opened"
              /\ Len(tasks') = Len(tasks) + 1
              /\ registry'[k] = Len(tasks')
              /\ tasks'[registry'[k]].key = k
              /\ tasks'[registry'[k]].pc # "done"
              /\ LiveTasks(tasks', k) = {registry'[k]}]_vars

C7_Witness ==
    /\ lastEvent.outcome = "opened"
    /\ lastEvent.prev # 0
    /\ IsFinished(lastEvent.prev)
    /\ tasks[lastEvent.prev].key = lastEvent.key
    /\ registry[lastEvent.key] = Len(tasks)
    /\ registry[lastEvent.key] # lastEvent.prev

\* C8 (bootstrap clears the stale entries): in the step that completes init,
\* as many entries were unset as were enumerated, no entry is persisted any
\* more, and the registry is empty.
C8_BootstrapClears ==
    [][(initState # "ok" /\ initState' = "ok") =>
          /\ initIdx' = Len(initProps) \/ (initState = "enumerate" /\ initIdx' = 0)
          /\ \A n \in 1..Len(initProps) : store'[initProps[n]] = NoEntry
          /\ InterfaceProps(store') = {}
          /\ registry' = EmptyRegistry
          /\ tasks' = <<>>]_vars

C8_Witness ==
    /\ initState = "ok"
    /\ initIdx = NumStale
    /\ InterfaceProps(store) = {}
    /\ tasks = <<>>

\* C9 (a bootstrap failure is fatal): an enumeration that does not return
\* the persisted entries, or an unset that leaves its entry in place, makes
\* init fail; once init has failed it stays failed, no event is handled and
\* no task is spawned.
InitFailed == initState \in {"err_enumerate", "err_unset"}

C9_BootstrapFailureFatal ==
    [][/\ (initState = "enumerate" /\ initState' # "enumerate"
             /\ InterfaceProps(store) # {} /\ initProps' = <<>>) =>
              initState' = "err_enumerate"
       /\ (initState = "unset" /\ InterfaceProps(store') = InterfaceProps(store)
             /\ <<initState, initIdx>>' # <<initState, initIdx>>) =>
              initState' = "err_unset"
       /\ InitFailed =>
              /\ initState' = initState
              /\ tasks = <<>> /\ tasks' = <<>>
              /\ registry' = EmptyRegistry
              /\ lastEvent' = NoEvent]_vars

C9_Witness ==
    /\ initState = "err_unset"
    /\ initIdx >= 1
    /\ InterfaceProps(store) # {}
    /\ tasks = <<>>
    /\ lastEvent = NoEvent

C11_Original ==
    [][\A tok \in Tokens :
          (/\ \E i \in TaskIds : Token(i) = tok /\ tasks[i].result = "Ok"
           /\ store[IPath(tok)] = NoEntry
           /\ store'[IPath(tok)] # NoEntry) =>
              store'[IPath(tok)].value = "Connecting"]_vars

\* C11, amended: the step in which a task publishes Disconnected successfully
\* leaves no entry at /<token>/status; no task ever stores "Disconnected" as
\* a value; an entry appears at an empty path only by the Connecting or
\* Connected publish of a task holding the token, issued in that step.
C11_DisconnectedIsAbsence ==
    [][/\ \A i \in TaskIds :
            (tasks[i].pc = "send_disconnected" /\ tasks'[i].result = "Ok") =>
                store'[IPath(Token(i))] = NoEntry
       /\ \A p \in Paths :
            /\ store'[p].writer # 0 => store'[p].value \in {"Connecting", "Connected"}
            /\ (initState = "ok" /\ store[p] = NoEntry /\ store'[p] # NoEntry) =>
                  LET w == store'[p].writer IN
                  /\ w \in TaskIds /\ p = IPath(Token(w))
                  /\ Len(tasks'[w].log) = Len(tasks[w].log) + 1
                  /\ SessionStatusToString(Last(tasks'[w].log)) = store'[p].value]_vars

\* a session went Connecting, Connected, Disconnected and nothing is stored
C11_Witness ==
    \E i \in TaskIds :
        /\ tasks[i].log = <<Connecting, Connected, Disconnected>>
        /\ tasks[i].result = "Ok"
        /\ \A p \in Paths : store[p] = NoEntry

\* C12 (malformed requests have no effect): a step of handle_sessions that
\* ends with the error of from_event or of Url::try_from spawns no task and
\* leaves the registry, every task and the persisted properties unchanged.
C12_MalformedNoEffect ==
    [][(lastEvent' # lastEvent /\ lastEvent'.outcome \in {"error", "invalid url"}) =>
          /\ tasks' = tasks
          /\ registry' = registry
          /\ store' = store]_vars

\* an event with an unbuildable url was dropped while a session was running
\* and the finished entry of another session stayed in the registry
C12_Witness ==
    /\ lastEvent.outcome = "invalid url"
    /\ \E i, j \in TaskIds :
          /\ ~IsFinished(i) /\ registry[tasks[i].key] = i
          /\ IsFinished(j) /\ registry[tasks[j].key] = j

\* the positions of a task inside the monitor loop of Forwarder::connect
LoopPcs == {"handle_connections", "loop_send_connecting", "reconnect", "loop_send_connected"}

\* C13, as stated: a task leaves the monitor loop only from
\* handle_connections (graceful completion) or by a failed reconnect.
C13_Original ==
    [][\A i \in TaskIds :
          (tasks[i].pc \in LoopPcs /\ tasks'[i].pc \notin LoopPcs) =>
              \/ tasks[i].pc = "handle_connections"
              \/ tasks[i].pc = "reconnect" /\ "reconnect" \in tasks'[i].fails]_vars

\* C13, amended: a task leaves the monitor loop only when handle_connections
\* returns Ok, when reconnect fails, or when the Connecting or Connected
\* publish of the loop body fails; it then goes to the Disconnected publish.
C13_LoopTermination ==
    [][\A i \in TaskIds :
          (tasks[i].pc \in LoopPcs /\ tasks'[i].pc \notin LoopPcs) =>
              /\ tasks'[i].pc = "send_disconnected"
              /\ \/ tasks[i].pc = "handle_connections" /\ tasks'[i].fails = tasks[i].fails
                 \/ /\ tasks[i].pc \in {"reconnect", "loop_send_connecting", "loop_send_connected"}
                    /\ tasks'[i].fails = tasks[i].fails \cup {tasks[i].pc}
                    /\ tasks[i].pc \notin tasks[i].fails]_vars

\* a task left the loop because the Connected publish after a reconnect failed
C13_Witness ==
    \E i \in TaskIds :
        /\ tasks[i].pc = "send_disconnected"
        /\ tasks[i].fails = {"loop_send_connected"}
        /\ tasks[i].log = <<Connecting, Connected, Connecting, Connected>>

\* C14 (isolation between sessions): a step that changes a task changes no
\* other task, not the registry and not the dispatcher's log; a step that
\* changes the registry is a step of handle_sessions for a valid request: it
\* changes no existing task, removes entries of finished tasks only and adds
\* the newly spawned task only.
C14_Isolation ==
    [][/\ \A i \in TaskIds :
            tasks'[i] # tasks[i] =>
                /\ registry' = registry
                /\ lastEvent' = lastEvent
                /\ Len(tasks') = Len(tasks)
                /\ \A j \in TaskIds \ {i} : tasks'[j] = tasks[j]
       /\ registry' # registry =>
            /\ \A i \in TaskIds : tasks'[i] = tasks[i]
            /\ lastEvent'.outcome \in {"running", "opened"}
            /\ \A k \in SessionInfo :
                  registry'[k] # registry[k] =>
                      \/ registry[k] # 0 /\ tasks[registry[k]].pc = "done" /\ registry'[k] = 0
                      \/ /\ registry'[k] = Len(tasks) + 1
                         /\ Len(tasks') = Len(tasks) + 1
                         /\ registry[k] = 0 \/ tasks[registry[k]].pc = "done"]_vars

\* one session failed with a publish error while another one, still in the
\* registry, goes on in its monitor loop
C14_Witness ==
    \E i, j \in TaskIds :
        /\ tasks[i].result = "Err"
        /\ registry[tasks[i].key] = i
        /\ tasks[j].pc = "handle_connections"
        /\ registry[tasks[j].key] = j

\* C15, as stated: every publish is one publisher call on the session-state
\* interface at /<token>/status: a send of the string for Connecting and
\* Connected, an unset call for Disconnected.
C15_Original ==
    \A i \in TaskIds :
        LET t == tasks[i] IN
        t.log # <<>> =>
            /\ t.ncalls = Len(t.log)
            /\ t.call.interface = "io.edgehog.devicemanager.ForwarderSessionState"
            /\ t.call.path = <<"/", t.key.session_token, "/status">>
            /\ Last(t.log) = Connecting =>
                  t.call.method = "send" /\ t.call.data = [tag |-> "String", val |-> "Connecting"]
            /\ Last(t.log) = Connected =>
                  t.call.method = "send" /\ t.call.data = [tag |-> "String", val |-> "Connected"]
            /\ Last(t.log) = Disconnected => t.call.method = "unset"

\* C15, amended: every publish is one Publisher::send call on the
\* session-state interface at /<token>/status, carrying the string for
\* Connecting and Connected and the Unset value for Disconnected.
C15_PublishMapping ==
    \A i \in TaskIds :
        LET t == tasks[i] IN
        /\ t.ncalls = Len(t.log)
        /\ t.log # <<>> =>
            /\ t.call.method = "send"
            /\ t.call.interface = "io.edgehog.devicemanager.ForwarderSessionState"
            /\ t.call.path = <<"/", t.key.session_token, "/status">>
            /\ Last(t.log) = Connecting => t.call.data = [tag |-> "String", val |-> "Connecting"]
            /\ Last(t.log) = Connected => t.call.data = [tag |-> "String", val |-> "Connected"]
            /\ Last(t.log) = Disconnected => t.call.data.tag = "Unset"

\* the Disconnected publish of a session was a send of Unset
C15_Witness ==
    \E i \in TaskIds :
        /\ tasks[i].ncalls = 3
        /\ Last(tasks[i].log) = Disconnected
        /\ tasks[i].call.method = "send"
        /\ tasks[i].call.data.tag = "Unset"

\* the registry without the entries whose task has finished
Reaped(reg, ts) ==
    [k \in SessionInfo |-> IF reg[k] # 0 /\ ts[reg[k]].pc = "done" THEN 0 ELSE reg[k]]

\* C16 (reap before lookup): a step of handle_sessions for a valid request
\* removes the entry of every finished task, of any key, keeps the entry of
\* every task that has not finished, and then keeps or inserts the entry of
\* the requested key; no other step changes the registry, so finished
\* entries stay until the next valid request.
C16_ReapBeforeLookup ==
    [][/\ (\/ registry' # registry
           \/ Len(tasks') # Len(tasks)
           \/ lastEvent' # lastEvent /\ lastEvent'.outcome \in {"running", "opened"}) =>
             LET k0 == lastEvent'.key
                 r == Reaped(registry, tasks)
             IN /\ lastEvent'.outcome \in {"running", "opened"}
                /\ \A k \in SessionInfo \ {k0} : registry'[k] = r[k]
                /\ registry'[k0] = IF r[k0] # 0 THEN r[k0] ELSE Len(tasks) + 1
                /\ \A k \in SessionInfo :
                      registry'[k] # 0 => tasks'[registry'[k]].pc # "done"
       /\ (\/ Len(tasks') = Len(tasks) /\ tasks' # tasks
           \/ lastEvent' # lastEvent /\ lastEvent'.outcome \in {"error", "invalid url"}) =>
             registry' = registry]_vars

\* a request for one key removed the finished entry of another key
C16_Witness ==
    /\ lastEvent.outcome = "opened"
    /\ registry[lastEvent.key] = Len(tasks)
    /\ \E j \in TaskIds :
          /\ tasks[j].key # lastEvent.key
          /\ IsFinished(j)
          /\ registry[tasks[j].key] = 0

\* C17 (termination depends only on the handler and the publisher): when
\* every call returns, a task whose connect, reconnect or publish failed, or
\* whose handler completed, eventually finishes; a task ends the connect
\* phase only by such a failure or by the completion of the handler, a
\* successful reconnect leads back to handle_connections, and the registry
\* entry of a task that has not finished is never removed.
C17_Termination ==
    /\ \A i \in 1..MaxTasks :
          (i \in TaskIds /\ (tasks[i].fails # {} \/ tasks[i].pc = "send_disconnected"))
              ~> (i \in TaskIds /\ tasks[i].pc = "done")
    /\ [][/\ \A i \in TaskIds :
               /\ (tasks[i].pc # "done" /\ tasks'[i].pc = "done") =>
                     \/ tasks[i].pc = "send_disconnected"
                     \/ tasks[i].pc = "send_connecting" /\ "send_connecting" \in tasks'[i].fails
               /\ (tasks[i].pc # "send_disconnected" /\ tasks'[i].pc = "send_disconnected") =>
                     \/ tasks[i].pc = "handle_connections"
                     \/ tasks'[i].fails # tasks[i].fails
               /\ (tasks[i].pc = "loop_send_connected" /\ tasks'[i].fails = tasks[i].fails
                     /\ tasks'[i] # tasks[i]) =>
                     tasks'[i].pc = "handle_connections"
          /\ \A k \in SessionInfo :
               (registry[k] # 0 /\ tasks[registry[k]].pc # "done") =>
                     registry'[k] = registry[k]]_vars

\* a task that has lost and re-established its connection as often as the
\* model lets it is back in handle_connections and still in the registry,
\* while a request for its key found it running
C17_Witness ==
    \E i \in TaskIds :
        /\ tasks[i].pc = "handle_connections"
        /\ Count(tasks[i].log, Connected) = MaxReconnects + 1
        /\ registry[tasks[i].key] = i
        /\ lastEvent = [key |-> tasks[i].key, prev |-> i, outcome |-> "running"]

\* C18 (Connected reflects an established connection): a task is about to
\* publish Connected only right after connect or reconnect succeeded, with
\* Connecting as its last publish and no failure so far; it calls reconnect
\* only after the Connecting publish of the loop succeeded; after a failed
\* connect, reconnect or loop Connecting publish no Connected follows.
C18_ConnectedAfterConnection ==
    \A i \in TaskIds :
        LET t == tasks[i]
            n == Len(t.log) - Count(t.log, Disconnected)
        IN
        /\ t.pc = "send_connected" => t.fails = {} /\ t.log = <<Connecting>>
        /\ t.pc \in {"reconnect", "loop_send_connected"} =>
              t.fails = {} /\ n >= 3 /\ t.log[n] = Connecting /\ t.log[n - 1] = Connected
        /\ t.pc = "loop_send_connecting" => t.fails = {} /\ t.log[n] = Connected
        /\ "connect" \in t.fails => Count(t.log, Connected) = 0
        /\ t.fails \cap {"reconnect", "loop_send_connecting"} # {} => t.log[n] = Connecting
        /\ Count(t.log, Connected) <= Count(t.log, Connecting)

\* after a loss and a successful reconnect the task is about to publish
\* Connected, its last publish being Connecting
C18_Witness ==
    \E i \in TaskIds :
        /\ tasks[i].pc = "loop_send_connected"
        /\ tasks[i].log = <<Connecting, Connected, Connecting>>

\* C19 (publish discipline under all failures): the first publish call of a
\* task is Connecting, every Connected call comes right after a Connecting
\* call, no two consecutive calls carry the same status, and the
\* Disconnected call is the last thing the task does.
C19_PublishDiscipline ==
    \A i \in TaskIds :
        LET t == tasks[i] IN
        /\ t.log # <<>> => t.log[1] = Connecting
        /\ \A n \in 1..Len(t.log) :
              /\ t.log[n] = Connected => n > 1 /\ t.log[n - 1] = Connecting
              /\ n < Len(t.log) => t.log[n] # t.log[n + 1]
              /\ t.log[n] = Disconnected => n = Len(t.log) /\ t.pc = "done"

\* a session whose Connected publish and Disconnected publish both failed
C19_Witness ==
    \E i \in TaskIds :
        /\ tasks[i].fails = {"send_connected", "send_disconnected"}
        /\ tasks[i].log = <<Connecting, Connected, Disconnected>>
        /\ tasks[i].pc = "done"

\* C20 (bootstrap stops at the first failure, without rollback): while init
\* runs and after an unset has failed, exactly the first initIdx enumerated
\* entries are cleared, in enumeration order; the entry whose unset failed
\* and every later one are still persisted.
C20_BootstrapStopsAtFailure ==
    initState \in {"unset", "err_unset"} =>
        /\ initIdx < Len(initProps)
        /\ \A n \in 1..Len(initProps) :
              IF n <= initIdx
              THEN store[initProps[n]] = NoEntry
              ELSE store[initProps[n]] # NoEntry
        /\ InterfaceProps(store) = {initProps[n] : n \in (initIdx + 1)..Len(initProps)}

\* the second unset of three failed: one entry cleared, two left
C20_Witness ==
    /\ initState = "err_unset"
    /\ Len(initProps) = 3
    /\ initIdx = 1
    /\ Cardinality(InterfaceProps(store)) = 2

====
